---------------------------- MODULE Spec2Model ----------------------------
(***************************************************************************)
(* Model of the React calculator: the engine `calculate` with its          *)
(* formatting guard `formatResult` (src/src/utils/calculatorLogic.ts) and   *)
(* the caller `handleInput` of the Calculator component                     *)
(* (src/src/components/Calculator.tsx).                                     *)
(*                                                                         *)
(* Strings are sequences of one-character strings, so that concatenation,  *)
(* `includes`, `split` and `length` are computed as JavaScript computes    *)
(* them.  The four non-ASCII button characters are written by name:        *)
(*   "minus" = U+2212, "times" = U+00D7, "divide" = U+00F7,                *)
(*   "plusminus" = U+00B1.                                                 *)
(* The ASCII "-" is the sign character Number.prototype.toString emits.    *)
(*                                                                         *)
(* Numbers are exact decimals  (-1)^neg * m * 10^(-e)  with m a sequence   *)
(* of decimal digits (the engine's limit 999999999999 does not fit the     *)
(* model checker's machine integers), plus NaN.  The binary rounding error *)
(* of IEEE-754 doubles (relative 2^-53) is not modelled: formatResult      *)
(* rounds to 8 decimals and refuses more than 12 characters, which is      *)
(* coarser than that error for the operands the model enumerates.          *)
(* Infinity needs an entry of more than 308 digits and is out of bounds.   *)
(***************************************************************************)
EXTENDS Integers, Sequences, FiniteSets, TLC

(***************************************************************************)
(* Characters and strings                                                  *)
(***************************************************************************)
DigitChars == <<"0", "1", "2", "3", "4", "5", "6", "7", "8", "9">>

IsDigitChar(c) == \E i \in 1..10 : DigitChars[i] = c

DigitVal(c) == (CHOOSE i \in 1..10 : DigitChars[i] = c) - 1

DigitChr(n) == DigitChars[n + 1]

\* JavaScript null (distinct from every string, the empty string included).
NULL == <<"null">>

\* JavaScript truthiness of a `string | null`.
Truthy(s) == s # NULL /\ s # <<>>

\* String.prototype.includes for a one-character needle.
Includes(s, c) == \E i \in 1..Len(s) : s[i] = c

\* Index of the first occurrence of c in s, or Len(s) + 1.
RECURSIVE IndexOf(_, _, _)
IndexOf(s, c, i) ==
    IF i > Len(s) THEN i
    ELSE IF s[i] = c THEN i
    ELSE IndexOf(s, c, i + 1)

RECURSIVE Zeros(_)
Zeros(n) == IF n <= 0 THEN <<>> ELSE <<0>> \o Zeros(n - 1)

(***************************************************************************)
(* Natural numbers as big-endian digit sequences without leading zeros     *)
(* (<<>> is zero).                                                         *)
(***************************************************************************)
RECURSIVE StripLead(_)
StripLead(d) ==
    IF d = <<>> THEN <<>>
    ELSE IF d[1] = 0 THEN StripLead(Tail(d))
    ELSE d

RECURSIVE StripTrail(_, _)
\* Drop trailing zeros of the mantissa while the scale allows it.
StripTrail(d, e) ==
    IF e > 0 /\ d # <<>> /\ d[Len(d)] = 0
    THEN StripTrail(SubSeq(d, 1, Len(d) - 1), e - 1)
    ELSE [m |-> d, e |-> e]

PadLeft(d, n) == Zeros(n - Len(d)) \o d

RECURSIVE CmpRec(_, _, _)
CmpRec(a, b, i) ==
    IF i > Len(a) THEN 0
    ELSE IF a[i] < b[i] THEN -1
    ELSE IF a[i] > b[i] THEN 1
    ELSE CmpRec(a, b, i + 1)

\* -1, 0, 1 as a < b, a = b, a > b (both without leading zeros).
CmpMag(a, b) ==
    IF Len(a) < Len(b) THEN -1
    ELSE IF Len(a) > Len(b) THEN 1
    ELSE CmpRec(a, b, 1)

RECURSIVE AddRec(_, _, _, _)
AddRec(a, b, i, c) ==
    IF i = 0 THEN (IF c = 0 THEN <<>> ELSE <<c>>)
    ELSE LET s == a[i] + b[i] + c
         IN  Append(AddRec(a, b, i - 1, s \div 10), s % 10)

AddMag(a, b) ==
    LET n == IF Len(a) > Len(b) THEN Len(a) ELSE Len(b)
    IN  StripLead(AddRec(PadLeft(a, n), PadLeft(b, n), n, 0))

RECURSIVE SubRec(_, _, _, _)
SubRec(a, b, i, c) ==
    IF i = 0 THEN <<>>
    ELSE LET s == a[i] - b[i] - c
         IN  Append(SubRec(a, b, i - 1, IF s < 0 THEN 1 ELSE 0),
                    IF s < 0 THEN s + 10 ELSE s)

\* a - b for a >= b.
SubMag(a, b) ==
    LET n == Len(a)
    IN  StripLead(SubRec(a, PadLeft(b, n), n, 0))

RECURSIVE MulDigitRec(_, _, _, _)
MulDigitRec(a, k, i, c) ==
    IF i = 0 THEN (IF c = 0 THEN <<>> ELSE <<c>>)
    ELSE LET s == a[i] * k + c
         IN  Append(MulDigitRec(a, k, i - 1, s \div 10), s % 10)

MulDigit(a, k) == StripLead(MulDigitRec(a, k, Len(a), 0))

RECURSIVE MulRec(_, _, _)
MulRec(a, b, j) ==
    IF j = 0 THEN <<>>
    ELSE LET hi == MulRec(a, b, j - 1)
         IN  AddMag(IF hi = <<>> THEN <<>> ELSE Append(hi, 0), MulDigit(a, b[j]))

MulMag(a, b) == MulRec(a, b, Len(b))

RECURSIVE QuotDigit(_, _, _)
\* The largest k <= 9 with k * b <= cur, counted up from k.
QuotDigit(cur, b, k) ==
    IF k < 9 /\ CmpMag(MulDigit(b, k + 1), cur) <= 0
    THEN QuotDigit(cur, b, k + 1)
    ELSE k

RECURSIVE DivRec(_, _, _)
\* Long division of the first i digits of a by b # 0: quotient and remainder.
DivRec(a, b, i) ==
    IF i = 0 THEN [q |-> <<>>, r |-> <<>>]
    ELSE LET p   == DivRec(a, b, i - 1)
             cur == StripLead(Append(p.r, a[i]))
             qd  == QuotDigit(cur, b, 0)
         IN  [q |-> Append(p.q, qd), r |-> SubMag(cur, MulDigit(b, qd))]

DivMag(a, b) ==
    LET d == DivRec(a, b, Len(a))
    IN  [q |-> StripLead(d.q), r |-> d.r]


\* The value of F(x), with x evaluated once: arguments are passed by
\* value, and a `const` is computed once, as in the source.
Bind(x, F(_)) == CHOOSE r \in {F(v) : v \in {x}} : TRUE

(***************************************************************************)
(* JavaScript numbers: NaN, or the decimal (-1)^neg * m * 10^(-e) in       *)
(* normal form (no leading zero in m, no trailing zero while e > 0, zero   *)
(* is m = <<>>, e = 0, neg = FALSE).  The sign of zero is not kept: the    *)
(* engine compares zero with === and prints it with toString, and neither  *)
(* tells -0 from 0.                                                        *)
(***************************************************************************)
NaN == [nan |-> TRUE, neg |-> FALSE, m |-> <<>>, e |-> 0]

Num(neg, m, e) ==
    Bind(StripTrail(m, e), LAMBDA t :
    Bind(StripLead(t.m), LAMBDA d :
        IF d = <<>>
        THEN [nan |-> FALSE, neg |-> FALSE, m |-> <<>>, e |-> 0]
        ELSE [nan |-> FALSE, neg |-> neg, m |-> d, e |-> t.e]))

Zero == [nan |-> FALSE, neg |-> FALSE, m |-> <<>>, e |-> 0]

isFinite(v) == ~v.nan

\* Unary minus.
Negate(x) == Bind(x, LAMBDA v : IF v.nan THEN NaN ELSE Num(~v.neg, v.m, v.e))

\* Math.abs
Abs(x) == Bind(x, LAMBDA v : IF v.nan THEN NaN ELSE Num(FALSE, v.m, v.e))

\* The mantissa of v at scale e >= v.e.
Scaled(v, e) == IF v.m = <<>> THEN <<>> ELSE v.m \o Zeros(e - v.e)

\* The larger of two scales.
MaxScale(a, b) == IF a.e > b.e THEN a.e ELSE b.e

\* a + b for finite a, b whose mantissas at the common scale e are x and y.
AddScaled(a, b, x, y, e) ==
    Bind(CmpMag(x, y), LAMBDA c :
        IF a.neg = b.neg THEN Num(a.neg, AddMag(x, y), e)
        ELSE IF c >= 0 THEN Num(a.neg, SubMag(x, y), e)
        ELSE Num(b.neg, SubMag(y, x), e))

\* a + b
NumAdd(p, q) ==
    Bind(<<p, q>>, LAMBDA ab :
        IF ab[1].nan \/ ab[2].nan THEN NaN
        ELSE Bind(<<Scaled(ab[1], MaxScale(ab[1], ab[2])),
                    Scaled(ab[2], MaxScale(ab[1], ab[2]))>>, LAMBDA xy :
                 AddScaled(ab[1], ab[2], xy[1], xy[2], MaxScale(ab[1], ab[2]))))

\* a - b
NumSub(p, q) == NumAdd(p, Negate(q))

\* a * b
NumMul(p, q) ==
    Bind(<<p, q>>, LAMBDA ab :
        IF ab[1].nan \/ ab[2].nan THEN NaN
        ELSE Num(ab[1].neg # ab[2].neg, MulMag(ab[1].m, ab[2].m), ab[1].e + ab[2].e))

\* Fractional digits the quotient is carried to before the sticky digit.
QuotientPlaces == 9

\* Zeros appended to the dividend's mantissa so that the quotient has at
\* least QuotientPlaces fractional digits.
Shift(a, b) == IF QuotientPlaces - a.e + b.e > 0 THEN QuotientPlaces - a.e + b.e ELSE 0

\* a / b for b # 0.  A quotient that does not terminate is cut after at
\* least QuotientPlaces fractional digits and marked inexact by one more
\* nonzero digit, so every comparison and every rounding to
\* MAX_DECIMAL_PLACES digits gives what it gives for the true quotient.
NumDiv(p, q) ==
    Bind(<<p, q>>, LAMBDA ab :
        IF ab[1].nan \/ ab[2].nan THEN NaN
        ELSE Bind(DivMag(IF ab[1].m = <<>> THEN <<>>
                         ELSE ab[1].m \o Zeros(Shift(ab[1], ab[2])), ab[2].m),
                  LAMBDA d :
                 IF d.r = <<>>
                 THEN Num(ab[1].neg # ab[2].neg, d.q,
                          ab[1].e - ab[2].e + Shift(ab[1], ab[2]))
                 ELSE Num(ab[1].neg # ab[2].neg, Append(d.q, 1),
                          ab[1].e - ab[2].e + Shift(ab[1], ab[2]) + 1)))

\* -1, 0, 1 as a < b, a = b, a > b (both finite).
NumCmp(p, q) ==
    Bind(<<p, q>>, LAMBDA ab :
        IF ab[1].neg # ab[2].neg THEN (IF ab[1].neg THEN -1 ELSE 1)
        ELSE Bind(CmpMag(Scaled(ab[1], MaxScale(ab[1], ab[2])),
                         Scaled(ab[2], MaxScale(ab[1], ab[2]))), LAMBDA c :
                 IF ab[1].neg THEN -c ELSE c))

(***************************************************************************)
(* Number <-> string conversions of JavaScript                             *)
(***************************************************************************)
RECURSIVE TakeDigits(_)
\* The longest prefix of s made of decimal digits.
TakeDigits(s) ==
    IF s # <<>> /\ IsDigitChar(s[1]) THEN <<s[1]>> \o TakeDigits(Tail(s))
    ELSE <<>>

DigitVals(s) == [i \in 1..Len(s) |-> DigitVal(s[i])]

DigitStr(d) == [i \in 1..Len(d) |-> DigitChr(d[i])]

RECURSIVE NatStr(_)
\* The decimal digits of a small natural number.
NatStr(n) == IF n < 10 THEN <<DigitChr(n)>> ELSE Append(NatStr(n \div 10), DigitChr(n % 10))

\* The digits after the point that follows the integer digits ip of body.
FractionDigits(body, ip) ==
    IF Len(body) > Len(ip) /\ body[Len(ip) + 1] = "."
    THEN TakeDigits(SubSeq(body, Len(ip) + 2, Len(body)))
    ELSE <<>>

\* parseFloat: the longest prefix that is a decimal literal (sign, digits,
\* point, digits), NaN when it has no digit.  An exponent part is not read:
\* no string of the calculator has a digit followed by "e".
parseFloat(str) ==
    Bind(str, LAMBDA s :
    Bind(IF s # <<>> /\ s[1] \in {"-", "+"} THEN Tail(s) ELSE s, LAMBDA body :
    Bind(TakeDigits(body), LAMBDA ip :
    Bind(FractionDigits(body, ip), LAMBDA fp :
        IF ip = <<>> /\ fp = <<>> THEN NaN
        ELSE Num(s[1] = "-", DigitVals(ip \o fp), Len(fp))))))

\* The exponent notation of toString: d[.ddd]e(+|-)x for 10^x <= |v| < 10^(x+1).
Exponential(ds, x) ==
    <<ds[1]>>
    \o (IF Len(ds) > 1 THEN <<".">> \o SubSeq(ds, 2, Len(ds)) ELSE <<>>)
    \o <<"e", IF x >= 0 THEN "+" ELSE "-">>
    \o NatStr(IF x >= 0 THEN x ELSE -x)

\* The plain notation of toString for the significant digits ds with the
\* decimal point after the n-th of them.
Plain(ds, n) ==
    IF Len(ds) <= n THEN ds \o DigitStr(Zeros(n - Len(ds)))
    ELSE IF n > 0 THEN SubSeq(ds, 1, n) \o <<".">> \o SubSeq(ds, n + 1, Len(ds))
    ELSE <<"0", ".">> \o DigitStr(Zeros(-n)) \o ds

\* Number.prototype.toString (radix 10): plain notation for
\* 1e-6 <= |v| < 1e21 and exponent notation otherwise.
NumToString(x) ==
    Bind(x, LAMBDA v :
        IF v.nan THEN <<"N", "a", "N">>
        ELSE IF v.m = <<>> THEN <<"0">>
        ELSE Bind(DigitStr(StripTrail(v.m, Len(v.m)).m), LAMBDA ds :
                 (IF v.neg THEN <<"-">> ELSE <<>>)
                 \o (IF Len(v.m) - v.e > 21 \/ Len(v.m) - v.e <= -6
                     THEN Exponential(ds, Len(v.m) - v.e - 1)
                     ELSE Plain(ds, Len(v.m) - v.e))))

\* The mantissa of |v| rounded to f fractional digits, a tie going to the
\* larger magnitude.
RoundedMantissa(v, f) ==
    LET L     == Len(v.m)
        drop  == v.e - f
        first == IF drop <= 0 \/ drop > L THEN 0 ELSE v.m[L - drop + 1]
    IN  IF drop <= 0 THEN v.m \o Zeros(-drop)
        ELSE IF drop >= L THEN (IF first >= 5 THEN <<1>> ELSE <<>>)
        ELSE IF first >= 5 THEN AddMag(SubSeq(v.m, 1, L - drop), <<1>>)
        ELSE SubSeq(v.m, 1, L - drop)

\* Number.prototype.toFixed(f) for |v| < 1e21: the rounded magnitude written
\* with exactly f fractional digits.
toFixed(x, f) ==
    Bind(x, LAMBDA v :
    Bind(DigitStr(PadLeft(RoundedMantissa(v, f), f + 1)), LAMBDA ds :
        (IF v.neg THEN <<"-">> ELSE <<>>)
        \o SubSeq(ds, 1, Len(ds) - f)
        \o (IF f > 0 THEN <<".">> \o SubSeq(ds, Len(ds) - f + 1, Len(ds)) ELSE <<>>)))

\* String.prototype.split('.') : the pieces between the points.
RECURSIVE Split(_)
Split(s) ==
    IF IndexOf(s, ".", 1) > Len(s) THEN <<s>>
    ELSE <<SubSeq(s, 1, IndexOf(s, ".", 1) - 1)>>
         \o Split(SubSeq(s, IndexOf(s, ".", 1) + 1, Len(s)))

(***************************************************************************)
(* calculatorLogic.ts                                                      *)
(***************************************************************************)
\* A function call either returns a value or throws an error object.
Return(x) == [kind |-> "return", value |-> x]

\* new CalculatorError(message, code), thrown.
CalculatorError(message, code) ==
    [kind |-> "throw", class |-> "CalculatorError", message |-> message, code |-> code]

\* The TypeError of calling operations[operation] for a key it does not have.
TypeError == [kind |-> "throw", class |-> "TypeError", message |-> <<>>, code |-> "none"]

ErrorText == <<"E", "r", "r", "o", "r">>

CalculationErrorText ==
    <<"C", "a", "l", "c", "u", "l", "a", "t", "i", "o", "n", " ", "e", "r", "r", "o", "r">>

MAX_SAFE_VALUE ==
    [nan |-> FALSE, neg |-> FALSE, m |-> <<9, 9, 9, 9, 9, 9, 9, 9, 9, 9, 9, 9>>, e |-> 0]

MIN_SAFE_VALUE ==
    [nan |-> FALSE, neg |-> TRUE, m |-> <<9, 9, 9, 9, 9, 9, 9, 9, 9, 9, 9, 9>>, e |-> 0]

MAX_DECIMAL_PLACES == 8

MAX_DISPLAY_LENGTH == 12

\* The literal 1e-8 of the underflow test.
UnderflowLimit == [nan |-> FALSE, neg |-> FALSE, m |-> <<1>>, e |-> 8]

\* Variant of Rounded: the string is not rounded.
Rounded_Unrounded(value, result) == result

\* Variant of Rounded: fractions are rounded to two digits.
Rounded_TwoPlaces(value, result) ==
    IF Includes(result, ".") /\ Len(Split(result)[2]) > 2
    THEN NumToString(parseFloat(toFixed(value, 2)))
    ELSE result

\* `result` after the rounding step: a fraction of more than
\* MAX_DECIMAL_PLACES digits is replaced by parseFloat(value.toFixed(...)).
Rounded(value, result) ==
    IF Includes(result, ".") /\ Len(Split(result)[2]) > MAX_DECIMAL_PLACES
    THEN NumToString(parseFloat(toFixed(value, MAX_DECIMAL_PLACES)))
    ELSE result

\* Variant of Checked: the length test is missing.
Checked_NoLengthTest(result) == Return(result)

\* The final length check.
Checked(result) ==
    IF Len(result) > MAX_DISPLAY_LENGTH THEN CalculatorError(ErrorText, "OVERFLOW")
    ELSE Return(result)

\* Variant of formatResult: the non-finite test is missing, so that NaN is
\* printed instead of refused.
formatResult_NoFiniteTest(x) ==
    Bind(x, LAMBDA value :
        IF ~isFinite(value) THEN Return(<<"N", "a", "N">>)
        ELSE IF value = Zero THEN Return(<<"0">>)
        ELSE IF NumCmp(value, MAX_SAFE_VALUE) > 0 \/ NumCmp(value, MIN_SAFE_VALUE) < 0
        THEN CalculatorError(ErrorText, "OVERFLOW")
        ELSE IF NumCmp(Abs(value), UnderflowLimit) < 0 THEN Return(<<"0">>)
        ELSE Bind(NumToString(value), LAMBDA result :
                 IF Includes(result, "e") THEN CalculatorError(ErrorText, "OVERFLOW")
                 ELSE Bind(Rounded(value, result), LAMBDA rounded : Checked(rounded))))

\* Variant of formatResult: the test for exponent notation is missing.
formatResult_NoExponentTest(x) ==
    Bind(x, LAMBDA value :
        IF ~isFinite(value) THEN CalculatorError(ErrorText, "OVERFLOW")
        ELSE IF value = Zero THEN Return(<<"0">>)
        ELSE IF NumCmp(value, MAX_SAFE_VALUE) > 0 \/ NumCmp(value, MIN_SAFE_VALUE) < 0
        THEN CalculatorError(ErrorText, "OVERFLOW")
        ELSE IF NumCmp(Abs(value), UnderflowLimit) < 0 THEN Return(<<"0">>)
        ELSE Bind(NumToString(value), LAMBDA result :
                 Bind(Rounded(value, result), LAMBDA rounded : Checked(rounded))))

\* Variant of formatResult: the underflow test is missing.
formatResult_NoUnderflow(x) ==
    Bind(x, LAMBDA value :
        IF ~isFinite(value) THEN CalculatorError(ErrorText, "OVERFLOW")
        ELSE IF value = Zero THEN Return(<<"0">>)
        ELSE IF NumCmp(value, MAX_SAFE_VALUE) > 0 \/ NumCmp(value, MIN_SAFE_VALUE) < 0
        THEN CalculatorError(ErrorText, "OVERFLOW")
        ELSE Bind(NumToString(value), LAMBDA result :
                 IF Includes(result, "e") THEN CalculatorError(ErrorText, "OVERFLOW")
                 ELSE Bind(Rounded(value, result), LAMBDA rounded : Checked(rounded))))

formatResult(x) ==
    Bind(x, LAMBDA value :
        IF ~isFinite(value) THEN CalculatorError(ErrorText, "OVERFLOW")
        ELSE IF value = Zero THEN Return(<<"0">>)
        ELSE IF NumCmp(value, MAX_SAFE_VALUE) > 0 \/ NumCmp(value, MIN_SAFE_VALUE) < 0
        THEN CalculatorError(ErrorText, "OVERFLOW")
        ELSE IF NumCmp(Abs(value), UnderflowLimit) < 0 THEN Return(<<"0">>)
        ELSE Bind(NumToString(value), LAMBDA result :
                 IF Includes(result, "e") THEN CalculatorError(ErrorText, "OVERFLOW")
                 ELSE Bind(Rounded(value, result), LAMBDA rounded : Checked(rounded))))

\* The button labels, as strings.
AC == <<"A", "C">>
PLUSMINUS == <<"plusminus">>
PERCENT == <<"%">>
EQUALS == <<"=">>
PLUS == <<"+">>
MINUS == <<"minus">>
TIMES == <<"times">>
DIVIDE == <<"divide">>
POINT == <<".">>

Operators == {PLUS, MINUS, TIMES, DIVIDE}

Digits == {<<DigitChars[i]>> : i \in 1..10}

\* Variant of isNumber: the test is missing and every label that reaches
\* the default case is taken for a digit.
isNumber_NoTest(item) == TRUE

\* /[0-9.]/.test(item): some character of item is a digit or the point.
isNumber(item) == \E i \in 1..Len(item) : IsDigitChar(item[i]) \/ item[i] = "."

\* Variant of divide: the test for a zero divisor is missing, so that the
\* quotient is not finite.
divide_NoZeroTest(a, b) == Return(IF b = Zero THEN NaN ELSE NumDiv(a, b))

\* The 'divide' entry of the operations table.
divide(a, b) ==
    IF b = Zero THEN CalculatorError(ErrorText, "DIVISION_BY_ZERO")
    ELSE Return(NumDiv(a, b))

\* Variant of operations: the table has no entry for the minus key, so
\* that operations[operation] is undefined and calling it a TypeError.
operations_NoMinus(operation, p, q) ==
    Bind(<<p, q>>, LAMBDA ab :
        IF operation = PLUS THEN Return(NumAdd(ab[1], ab[2]))
        ELSE IF operation = TIMES THEN Return(NumMul(ab[1], ab[2]))
        ELSE IF operation = DIVIDE THEN divide(ab[1], ab[2])
        ELSE TypeError)

\* operations[operation](a, b)
operations(operation, p, q) ==
    Bind(<<p, q>>, LAMBDA ab :
        IF operation = PLUS THEN Return(NumAdd(ab[1], ab[2]))
        ELSE IF operation = MINUS THEN Return(NumSub(ab[1], ab[2]))
        ELSE IF operation = TIMES THEN Return(NumMul(ab[1], ab[2]))
        ELSE IF operation = DIVIDE THEN divide(ab[1], ab[2])
        ELSE TypeError)

EmptyState == [total |-> NULL, next |-> NULL, operation |-> NULL]

\* { ...state, [field]: formatResult(value) }
WithFormatted(state, field, value) ==
    Bind(formatResult(value), LAMBDA f :
        IF f.kind = "throw" THEN f
        ELSE Return([state EXCEPT ![field] = f.value]))

\* Variant of caseAC: only the entry is cleared.
caseAC_ClearsEntry(state) == Return([state EXCEPT !.next = NULL])

\* case 'AC'
caseAC(state) == Return(EmptyState)

\* Variant of casePlusMinus: total is tested before next.
casePlusMinus_PrefersTotal(state) ==
    IF Truthy(state.total)
    THEN WithFormatted(state, "total", Negate(parseFloat(state.total)))
    ELSE IF Truthy(state.next)
    THEN WithFormatted(state, "next", Negate(parseFloat(state.next)))
    ELSE Return(state)

\* Variant of casePlusMinus: the sign is toggled on the text of the entry.
casePlusMinus_TogglesText(state) ==
    IF Truthy(state.next)
    THEN Return([state EXCEPT !.next = IF @[1] = "-" THEN Tail(@) ELSE <<"-">> \o @])
    ELSE IF Truthy(state.total)
    THEN Return([state EXCEPT !.total = IF @[1] = "-" THEN Tail(@) ELSE <<"-">> \o @])
    ELSE Return(state)

\* case 'plusminus'
casePlusMinus(state) ==
    IF Truthy(state.next)
    THEN WithFormatted(state, "next", Negate(parseFloat(state.next)))
    ELSE IF Truthy(state.total)
    THEN WithFormatted(state, "total", Negate(parseFloat(state.total)))
    ELSE Return(state)

\* The literal 100.
Hundred == [nan |-> FALSE, neg |-> FALSE, m |-> <<1, 0, 0>>, e |-> 0]

\* Variant of casePercent: the final `return state` is missing, so that an
\* absent total is divided as well.
casePercent_NoFallback(state) ==
    IF Truthy(state.next)
    THEN WithFormatted(state, "next", NumDiv(parseFloat(state.next), Hundred))
    ELSE WithFormatted(state, "total", NumDiv(parseFloat(state.total), Hundred))

\* case '%'
casePercent(state) ==
    IF Truthy(state.next)
    THEN WithFormatted(state, "next", NumDiv(parseFloat(state.next), Hundred))
    ELSE IF Truthy(state.total)
    THEN WithFormatted(state, "total", NumDiv(parseFloat(state.total), Hundred))
    ELSE Return(state)

\* Variant of Resolve: the operand and the operator stay pending after '='.
Resolve_KeepsPending(state, newOperation) ==
    Bind(operations(state.operation, parseFloat(state.total), parseFloat(state.next)),
         LAMBDA result :
        IF result.kind = "throw" THEN result
        ELSE Bind(formatResult(result.value), LAMBDA formattedResult :
                 IF formattedResult.kind = "throw" THEN formattedResult
                 ELSE Return([total |-> formattedResult.value,
                              next |-> IF newOperation = NULL THEN state.next ELSE NULL,
                              operation |-> IF newOperation = NULL THEN state.operation
                                            ELSE newOperation])))

\* The pending operation resolved: operations[operation](parseFloat(total),
\* parseFloat(next)), formatted, returned as total with `operation` set to
\* newOperation.
Resolve(state, newOperation) ==
    Bind(operations(state.operation, parseFloat(state.total), parseFloat(state.next)),
         LAMBDA result :
        IF result.kind = "throw" THEN result
        ELSE Bind(formatResult(result.value), LAMBDA formattedResult :
                 IF formattedResult.kind = "throw" THEN formattedResult
                 ELSE Return([total |-> formattedResult.value, next |-> NULL,
                              operation |-> newOperation])))

\* total && operation && next
Full(state) == Truthy(state.total) /\ Truthy(state.operation) /\ Truthy(state.next)

\* Variant of caseEquals: `next` is not tested.
caseEquals_IgnoresNext(state) ==
    IF Truthy(state.total) /\ Truthy(state.operation) THEN Resolve(state, NULL)
    ELSE Return(state)

\* Variant of caseEquals: the pressed label is stored as the operation, as
\* the operator cases do.
caseEquals_SetsOperation(state) ==
    IF Full(state) THEN Resolve(state, EQUALS) ELSE Return(state)

\* case '='
caseEquals(state) == IF Full(state) THEN Resolve(state, NULL) ELSE Return(state)

\* Variant of caseOperator: a pending computation is not resolved.
caseOperator_NoChain(state, buttonName) ==
    IF ~Truthy(state.operation)
    THEN Return([total |-> IF Truthy(state.next) THEN state.next ELSE state.total,
                 next |-> NULL, operation |-> buttonName])
    ELSE Return([state EXCEPT !.operation = buttonName])

\* Variant of caseOperator: with no operator pending, total is preferred to
\* next.
caseOperator_PrefersTotal(state, buttonName) ==
    IF Full(state) THEN Resolve(state, buttonName)
    ELSE IF ~Truthy(state.operation)
    THEN Return([total |-> IF Truthy(state.total) THEN state.total ELSE state.next,
                 next |-> NULL, operation |-> buttonName])
    ELSE Return([state EXCEPT !.operation = buttonName])

\* Variant of caseOperator: the pending computation is resolved without
\* testing `next`.
caseOperator_ResolvesWithoutNext(state, buttonName) ==
    IF Truthy(state.total) /\ Truthy(state.operation) THEN Resolve(state, buttonName)
    ELSE IF ~Truthy(state.operation)
    THEN Return([total |-> IF Truthy(state.next) THEN state.next ELSE state.total,
                 next |-> NULL, operation |-> buttonName])
    ELSE Return([state EXCEPT !.operation = buttonName])

\* case '+', 'minus', 'times', 'divide'
caseOperator(state, buttonName) ==
    IF Full(state) THEN Resolve(state, buttonName)
    ELSE IF ~Truthy(state.operation)
    THEN Return([total |-> IF Truthy(state.next) THEN state.next ELSE state.total,
                 next |-> NULL, operation |-> buttonName])
    ELSE Return([state EXCEPT !.operation = buttonName])

\* Variant of Appended: the new character is put in front.
Appended_Prepends(next, buttonName) ==
    IF next = <<"0">> THEN buttonName ELSE buttonName \o next

\* Variant of Appended: the test for a lone "0" is missing.
Appended_NoZeroTest(next, buttonName) == next \o buttonName

\* next === '0' ? buttonName : next + buttonName
Appended(next, buttonName) == IF next = <<"0">> THEN buttonName ELSE next \o buttonName

\* Variant of caseDefault: the test for a second decimal point is missing.
caseDefault_NoGuard(state, buttonName) ==
    IF isNumber(buttonName)
    THEN (IF buttonName = POINT /\ ~Truthy(state.next)
          THEN Return([state EXCEPT !.next = <<"0", ".">>])
          ELSE IF Truthy(state.operation)
          THEN (IF Truthy(state.next)
                THEN Return([state EXCEPT !.next = Appended(state.next, buttonName)])
                ELSE Return([state EXCEPT !.next = buttonName]))
          ELSE IF Truthy(state.next)
          THEN Return([state EXCEPT !.next = Appended(state.next, buttonName),
                                    !.total = NULL])
          ELSE Return([state EXCEPT !.next = buttonName, !.total = NULL]))
    ELSE Return(state)

\* Variant of caseDefault: a decimal point with no entry is stored like a
\* digit (the "0." branch is missing).
caseDefault_NoPointStart(state, buttonName) ==
    IF isNumber(buttonName)
    THEN (IF buttonName = POINT /\ Truthy(state.next) /\ Includes(state.next, ".")
          THEN Return(state)
          ELSE IF Truthy(state.operation)
          THEN (IF Truthy(state.next)
                THEN Return([state EXCEPT !.next = Appended(state.next, buttonName)])
                ELSE Return([state EXCEPT !.next = buttonName]))
          ELSE IF Truthy(state.next)
          THEN Return([state EXCEPT !.next = Appended(state.next, buttonName),
                                    !.total = NULL])
          ELSE Return([state EXCEPT !.next = buttonName, !.total = NULL]))
    ELSE Return(state)

\* Variant of caseDefault: the test for a pending operator is missing, so
\* every digit press is handled as the start of a new calculation.
caseDefault_ForgetsOperator(state, buttonName) ==
    IF isNumber(buttonName)
    THEN (IF buttonName = POINT /\ Truthy(state.next) /\ Includes(state.next, ".")
          THEN Return(state)
          ELSE IF buttonName = POINT /\ ~Truthy(state.next)
          THEN Return([state EXCEPT !.next = <<"0", ".">>])
          ELSE IF Truthy(state.next)
          THEN Return([state EXCEPT !.next = Appended(state.next, buttonName),
                                    !.total = NULL])
          ELSE Return([state EXCEPT !.next = buttonName, !.total = NULL]))
    ELSE Return(state)

\* default: a digit or the decimal point (any other label returns state).
caseDefault(state, buttonName) ==
    IF isNumber(buttonName)
    THEN (IF buttonName = POINT /\ Truthy(state.next) /\ Includes(state.next, ".")
          THEN Return(state)
          ELSE IF buttonName = POINT /\ ~Truthy(state.next)
          THEN Return([state EXCEPT !.next = <<"0", ".">>])
          ELSE IF Truthy(state.operation)
          THEN (IF Truthy(state.next)
                THEN Return([state EXCEPT !.next = Appended(state.next, buttonName)])
                ELSE Return([state EXCEPT !.next = buttonName]))
          ELSE IF Truthy(state.next)
          THEN Return([state EXCEPT !.next = Appended(state.next, buttonName),
                                    !.total = NULL])
          ELSE Return([state EXCEPT !.next = buttonName, !.total = NULL]))
    ELSE Return(state)

\* The switch statement inside the try block.
calculateBody(state, buttonName) ==
    IF buttonName = AC THEN caseAC(state)
    ELSE IF buttonName = PLUSMINUS THEN casePlusMinus(state)
    ELSE IF buttonName = PERCENT THEN casePercent(state)
    ELSE IF buttonName = EQUALS THEN caseEquals(state)
    ELSE IF buttonName \in Operators THEN caseOperator(state, buttonName)
    ELSE caseDefault(state, buttonName)

\* calculate: the try block, a CalculatorError rethrown and any other error
\* replaced by the CALCULATION_ERROR fallback.
calculate(state, buttonName) ==
    Bind(calculateBody(state, buttonName), LAMBDA r :
        IF r.kind = "throw" /\ r.class # "CalculatorError"
        THEN CalculatorError(CalculationErrorText, "CALCULATION_ERROR")
        ELSE r)

(***************************************************************************)
(* Calculator.tsx                                                          *)
(***************************************************************************)
allowedInputs == Digits \cup Operators \cup {EQUALS, AC, PLUSMINUS, PERCENT, POINT}

\* A label the keypad does not have.
BadLabel == <<"x">>

\* The state the caller shows for a caught CalculatorError.
ErrorDisplay(message) == [total |-> message, next |-> NULL, operation |-> NULL]

\* Variant of handleInput: the label is not validated and every label is
\* handed to calculate.
handleInput_NoValidation(ui, button) ==
    Bind(calculate(ui.state, button), LAMBDA r :
        IF r.kind = "return"
        THEN [state |-> r.value, isError |-> ui.isError, timers |-> ui.timers,
              thrown |-> "none"]
        ELSE IF r.class = "CalculatorError"
        THEN [state |-> ErrorDisplay(r.message), isError |-> ui.isError,
              timers |-> ui.timers, thrown |-> r.code]
        ELSE [state |-> ui.state, isError |-> TRUE, timers |-> ui.timers + 1,
              thrown |-> r.code])

\* Variant of handleInput: a CalculatorError is not recognised and is handled
\* as any other error (the error flag and its timer, `state` kept).
handleInput_GenericOnly(ui, button) ==
    IF button \notin allowedInputs
    THEN [state |-> ui.state, isError |-> TRUE, timers |-> ui.timers + 1, thrown |-> "none"]
    ELSE Bind(calculate(ui.state, button), LAMBDA r :
             IF r.kind = "return"
             THEN [state |-> r.value, isError |-> ui.isError, timers |-> ui.timers,
                   thrown |-> "none"]
             ELSE [state |-> ui.state, isError |-> TRUE, timers |-> ui.timers + 1,
                   thrown |-> r.code])

\* handleInput on the component's state ui = [state, isError, timers], where
\* timers counts the setTimeout callbacks not yet run.  The result also
\* names what calculate threw ("none" when it returned or was not called).
handleInput(ui, button) ==
    IF button \notin allowedInputs
    THEN [state |-> ui.state, isError |-> TRUE, timers |-> ui.timers + 1, thrown |-> "none"]
    ELSE Bind(calculate(ui.state, button), LAMBDA r :
             IF r.kind = "return"
             THEN [state |-> r.value, isError |-> ui.isError, timers |-> ui.timers,
                   thrown |-> "none"]
             ELSE IF r.class = "CalculatorError"
             THEN [state |-> ErrorDisplay(r.message), isError |-> ui.isError,
                   timers |-> ui.timers, thrown |-> r.code]
             ELSE [state |-> ui.state, isError |-> TRUE, timers |-> ui.timers + 1,
                   thrown |-> r.code])

(***************************************************************************)
(* The expression typed since the last empty state, while the presses have *)
(* the shape  <keys of a> <operator> <keys of b> '='  (history only).      *)
(***************************************************************************)
TypedStart == [phase |-> "a", a |-> <<>>, op |-> NULL, b |-> <<>>]

TypedOff == [phase |-> "off", a |-> <<>>, op |-> NULL, b |-> <<>>]

TypedStep(t, button) ==
    IF button = AC THEN TypedStart
    ELSE IF t.phase = "a" /\ button \in Digits \cup {POINT}
    THEN [t EXCEPT !.a = @ \o button]
    ELSE IF t.phase = "a" /\ button \in Operators /\ t.a # <<>>
    THEN [t EXCEPT !.phase = "b", !.op = button]
    ELSE IF t.phase = "b" /\ button \in Digits \cup {POINT}
    THEN [t EXCEPT !.b = @ \o button]
    ELSE IF t.phase = "b" /\ button = EQUALS /\ t.b # <<>>
    THEN [t EXCEPT !.phase = "done"]
    ELSE TypedOff

(***************************************************************************)
(* The state machine                                                       *)
(***************************************************************************)
VARIABLES
    state,       \* useState<CalculatorState>: [total, next, operation]
    isError,     \* useState(false)
    timers,      \* pending setTimeout(() => setIsError(false), 2000) callbacks
    lastButton,  \* history: the label of the last press, NULL before the first
    thrown,      \* history: the code calculate threw on the last press, or "none"
    prev,        \* history: `state` before the last press
    typed,       \* history: the expression typed (see TypedStep)
    script,      \* the labels of the initial key sequence still to be pressed
    presses,     \* number of presses made after the initial key sequence
    rendered     \* the `state` of the last render, which handleInput closes over

vars == <<state, isError, timers, lastButton, thrown, prev, typed, script, presses, rendered>>

\* Presses explored after the initial key sequence.
MaxPresses == 3

\* Pending timers explored.
MaxTimers == 1

RECURSIVE Repeat(_, _)
Repeat(button, n) == IF n = 0 THEN <<>> ELSE <<button>> \o Repeat(button, n - 1)

D(i) == <<DigitChr(i)>>

\* Initial key sequences: they bring the entries of many digits, which
\* exhaustive pressing reaches only at great depth.
Preludes ==
    { <<>>,
      Repeat(D(9), 12),
      Repeat(D(9), 12) \o <<PLUS>>,
      Repeat(D(9), 12) \o <<TIMES>>,
      <<D(0), POINT>> \o Repeat(D(3), 7),
      <<D(1), POINT, D(5), TIMES>>,
      <<D(2), DIVIDE>>,
      <<D(7), MINUS, D(9)>>,
      <<D(2), DIVIDE, D(0), EQUALS>> }

\* The digit buttons pressed during exploration: "0", which the entry rules
\* single out, and two others (every digit occurs in the initial sequences).
PressedDigits == {D(0), D(1), D(5)}

Buttons == (allowedInputs \ Digits) \cup PressedDigits \cup {BadLabel}

\* The component after construction (useState initial values), about to
\* receive one of the initial key sequences.
Init ==
    /\ state = EmptyState
    /\ isError = FALSE
    /\ timers = 0
    /\ lastButton = NULL
    /\ thrown = "none"
    /\ prev = EmptyState
    /\ typed = TypedStart
    /\ script \in Preludes
    /\ presses = 0
    /\ rendered = EmptyState

\* handleInput(button) with the history it leaves, followed by the render
\* that React performs for the update before it dispatches the next event:
\* the component function runs again and useCallback, whose dependency
\* `state` changed, yields a handleInput that closes over the new state.
Handle(button) ==
    \E h \in {handleInput([state |-> state, isError |-> isError, timers |-> timers], button)} :
        /\ state' = h.state
        /\ isError' = h.isError
        /\ timers' = h.timers
        /\ thrown' = h.thrown
        /\ lastButton' = button
        /\ prev' = state
        /\ typed' = TypedStep(typed, button)
        /\ rendered' = h.state

\* The next key of the initial sequence is pressed.
Scripted ==
    /\ script # <<>>
    /\ Handle(Head(script))
    /\ script' = Tail(script)
    /\ UNCHANGED presses

\* A click on a keypad button (or a mapped key): handleInput(button).
Press ==
    \E button \in Buttons :
        /\ script = <<>>
        /\ presses < MaxPresses
        /\ button \notin allowedInputs => timers < MaxTimers
        /\ Handle(button)
        /\ presses' = presses + 1
        /\ UNCHANGED script

\* A 2-second timer fires: setIsError(false).
TimerFires ==
    /\ timers > 0
    /\ isError' = FALSE
    /\ timers' = timers - 1
    /\ UNCHANGED <<state, lastButton, thrown, prev, typed, script, presses, rendered>>

Next == Scripted \/ Press \/ TimerFires

Spec == Init /\ [][Next]_vars

(***************************************************************************)
(* The same component, started on the entries that exercise the formatting *)
(* guard: numbers at the limits of the display.                            *)
(***************************************************************************)
\* Initial key sequences for the formatting guard: the largest entry, a
\* tiny entry (0.0000001), entries with many fractional digits (7 and 9,
\* below and above MAX_DECIMAL_PLACES) and a division whose quotient does
\* not terminate (200 / 15).
GuardPreludes ==
    { <<>>,
      Repeat(D(9), 12),
      Repeat(D(9), 12) \o <<TIMES>>,
      <<POINT>> \o Repeat(D(0), 6) \o <<D(1)>>,
      <<POINT>> \o Repeat(D(3), 7),
      <<POINT>> \o Repeat(D(3), 9),
      <<D(2), D(0), D(0), DIVIDE, D(1), D(5)>>,
      <<D(1), POINT, D(5), TIMES>>,
      <<D(2), DIVIDE>> }

InitGuard ==
    /\ state = EmptyState
    /\ isError = FALSE
    /\ timers = 0
    /\ lastButton = NULL
    /\ thrown = "none"
    /\ prev = EmptyState
    /\ typed = TypedStart
    /\ script \in GuardPreludes
    /\ presses = 0
    /\ rendered = EmptyState

SpecGuard == InitGuard /\ [][Next]_vars

(***************************************************************************)
(* The same component with its timers scheduled: a callback handed to      *)
(* setTimeout(..., 2000) is run by the event loop once its delay is over,  *)
(* so a pending timer does not stay pending for ever.                      *)
(***************************************************************************)
\* Initial key sequences: none, a pending division and a shown error.
LivePreludes ==
    { <<>>,
      <<D(2), DIVIDE>>,
      <<D(2), DIVIDE, D(0), EQUALS>> }

InitLive ==
    /\ state = EmptyState
    /\ isError = FALSE
    /\ timers = 0
    /\ lastButton = NULL
    /\ thrown = "none"
    /\ prev = EmptyState
    /\ typed = TypedStart
    /\ script \in LivePreludes
    /\ presses = 0
    /\ rendered = EmptyState

SpecLive == InitLive /\ [][Next]_vars /\ WF_vars(TimerFires)

(***************************************************************************)
(* The same component when React has not yet rendered an update before the *)
(* next press is handled.  handleInput is useCallback(..., [state]): it    *)
(* reads the `state` of the render that created it and calls setState with *)
(* a value, not with an updater, so until the next render every call       *)
(* computes from the same rendered state.                                  *)
(***************************************************************************)
BatchPreludes ==
    { <<>>,
      <<D(2), DIVIDE>> }

InitBatch ==
    /\ state = EmptyState
    /\ isError = FALSE
    /\ timers = 0
    /\ lastButton = NULL
    /\ thrown = "none"
    /\ prev = EmptyState
    /\ typed = TypedStart
    /\ script \in BatchPreludes
    /\ presses = 0
    /\ rendered = EmptyState

\* handleInput(button) of the last render: calculate(state, button) reads
\* the rendered state; setState(result) is called for every allowed label.
Click ==
    \E button \in Buttons :
        /\ script = <<>>
        /\ presses < MaxPresses
        /\ button \notin allowedInputs => timers < MaxTimers
        /\ \E h \in {handleInput([state |-> rendered, isError |-> isError,
                                  timers |-> timers], button)} :
               /\ state' = IF button \in allowedInputs THEN h.state ELSE state
               /\ isError' = h.isError
               /\ timers' = h.timers
               /\ thrown' = h.thrown
               /\ lastButton' = button
               /\ prev' = state
               /\ typed' = TypedStep(typed, button)
        /\ presses' = presses + 1
        /\ UNCHANGED <<script, rendered>>

\* React renders the pending update: the component function runs with the
\* stored state and creates the next handleInput.
Render ==
    /\ rendered # state
    /\ rendered' = state
    /\ UNCHANGED <<state, isError, timers, lastButton, thrown, prev, typed, script, presses>>

NextBatch == Scripted \/ Click \/ Render \/ TimerFires

SpecBatch == InitBatch /\ [][NextBatch]_vars

(***************************************************************************)
(* calculate called directly, as a test or another caller would: the label *)
(* is any string (buttonName: string), not only one that handleInput lets  *)
(* through.  The caller keeps the returned state for the next call and     *)
(* keeps its state when calculate throws.                                  *)
(***************************************************************************)
\* Strings that are not button labels: a letter, the empty string, two
\* digits, a letter before a digit, and two points.
IllegalLabels ==
    { BadLabel,
      <<>>,
      <<"1", "2">>,
      <<"x", "1">>,
      <<".", ".">> }

\* The labels of the direct calls: the illegal ones and a few legal ones.
DirectLabels == IllegalLabels \cup {D(5), POINT, PLUS, EQUALS}

EnginePreludes ==
    { <<>>,
      <<D(2), DIVIDE>>,
      <<D(7), MINUS, D(9)>> }

InitEngine ==
    /\ state = EmptyState
    /\ isError = FALSE
    /\ timers = 0
    /\ lastButton = NULL
    /\ thrown = "none"
    /\ prev = EmptyState
    /\ typed = TypedStart
    /\ script \in EnginePreludes
    /\ presses = 0
    /\ rendered = EmptyState

\* calculate(state, label), called directly.
Call ==
    \E label \in DirectLabels :
        /\ script = <<>>
        /\ presses < MaxPresses
        /\ \E r \in {calculate(state, label)} :
               /\ state' = IF r.kind = "return" THEN r.value ELSE state
               /\ thrown' = IF r.kind = "return" THEN "none" ELSE r.code
        /\ lastButton' = label
        /\ prev' = state
        /\ typed' = TypedStep(typed, label)
        /\ rendered' = state'
        /\ presses' = presses + 1
        /\ UNCHANGED <<isError, timers, script>>

NextEngine == Scripted \/ Call

SpecEngine == InitEngine /\ [][NextEngine]_vars

(***************************************************************************)
(* What the component renders from `state`                                 *)
(***************************************************************************)
\* Variant of displayValue: total is preferred to next.
displayValue_PrefersTotal ==
    IF Truthy(state.total) THEN state.total
    ELSE IF Truthy(state.next) THEN state.next
    ELSE <<"0">>

\* const displayValue = state.next || state.total || '0'
displayValue ==
    IF Truthy(state.next) THEN state.next
    ELSE IF Truthy(state.total) THEN state.total
    ELSE <<"0">>

\* const expression = state.operation && state.total
\*     ? `${state.total} ${state.operation} ${state.next || ''}` : ''
expression ==
    IF Truthy(state.operation) /\ Truthy(state.total)
    THEN state.total \o <<" ">> \o state.operation \o <<" ">>
             \o (IF Truthy(state.next) THEN state.next ELSE <<>>)
    ELSE <<>>

\* Display renders the expression line: {expression && (<div ...>)}
ExpressionShown == Truthy(expression)

(***************************************************************************)
(* Vocabulary of the properties                                            *)
(***************************************************************************)
\* A field of the state is present.
Present(x) == x # NULL

\* What handleInput leaves in `state` when calculate answers r.
Shown(r) == IF r.kind = "return" THEN r.value ELSE ErrorDisplay(r.message)

\* What calculate threw when it answers r.
Code(r) == IF r.kind = "return" THEN "none" ELSE r.code

\* The last press was `button`, handled from the state `prev`, and the
\* caller stored what calculate answered.
Stored(r) == state = Shown(r) /\ thrown = Code(r)

\* s is a decimal literal: digits, then optionally a point and digits.
IsDecimalLiteral(s) ==
    LET ip == TakeDigits(s)
        fp == FractionDigits(s, ip)
    IN  /\ ip # <<>>
        /\ \/ Len(s) = Len(ip)
           \/ fp # <<>> /\ Len(s) = Len(ip) + 1 + Len(fp)

\* s is read by parseFloat to its last character as a finite number.
IsFiniteNumber(s) ==
    LET signed == s # <<>> /\ s[1] = "-"
        body   == IF signed THEN Tail(s) ELSE s
        ip     == TakeDigits(body)
        fp     == FractionDigits(body, ip)
    IN  /\ ip # <<>> \/ fp # <<>>
        /\ \/ Len(body) = Len(ip)
           \/ body[Len(ip) + 1] = "." /\ Len(body) = Len(ip) + 1 + Len(fp)
        /\ isFinite(parseFloat(s))

\* The number of decimal points in s.
Points(s) == Cardinality({i \in 1..Len(s) : s[i] = "."})

\* The number of digits after the decimal point of s.
FractionLength(s) == IF Includes(s, ".") THEN Len(s) - IndexOf(s, ".", 1) ELSE 0

\* 1e12
OneE12 ==
    [nan |-> FALSE, neg |-> FALSE, m |-> <<1, 0, 0, 0, 0, 0, 0, 0, 0, 0, 0, 0, 0>>, e |-> 0]

\* The buttons whose handling may compute a number.
Computing == Operators \cup {EQUALS, PLUSMINUS, PERCENT}

\* The number that pressing `button` in state s hands to formatResult:
\* Return(number), the error thrown while computing it, or "idle" when the
\* press computes nothing.
Idle == [kind |-> "idle"]

Computation(s, button) ==
    IF button \in {PLUSMINUS, PERCENT} /\ (Truthy(s.next) \/ Truthy(s.total))
    THEN Bind(parseFloat(IF Truthy(s.next) THEN s.next ELSE s.total), LAMBDA v :
             Return(IF button = PLUSMINUS THEN Negate(v) ELSE NumDiv(v, Hundred)))
    ELSE IF button \in Operators \cup {EQUALS} /\ Full(s)
    THEN operations(s.operation, parseFloat(s.total), parseFloat(s.next))
    ELSE Idle

\* The number v is not finite or has magnitude 1e12 or more.
TooLarge(v) == ~isFinite(v) \/ NumCmp(Abs(v), OneE12) >= 0

(***************************************************************************)
(* Properties                                                              *)
(***************************************************************************)

\* C1: clear is absorbing.  In every reachable state, the error display
\* included, calculate answers AC with the empty state, and after an AC
\* press the caller holds the empty state and no error was signalled.
C1_ClearAbsorbing ==
    /\ calculate(state, AC) = Return(EmptyState)
    /\ lastButton = AC => state = EmptyState /\ thrown = "none"

\* AC was pressed on the error display and left the empty state.
C1_Witness == lastButton = AC /\ prev = ErrorDisplay(ErrorText) /\ state = EmptyState

\* C2: from the empty state, the keys of a decimal a, an operator, the keys
\* of a decimal b # 0 and '=' leave total = formatResult(a op b) with next
\* and operation absent; where formatResult signals an error for a op b,
\* the press signals that error.
C2_TypedExpression ==
    (/\ typed.phase = "done"
     /\ IsDecimalLiteral(typed.a)
     /\ IsDecimalLiteral(typed.b)
     /\ parseFloat(typed.b) # Zero)
    => Bind(formatResult(operations(typed.op, parseFloat(typed.a),
                                    parseFloat(typed.b)).value), LAMBDA f :
           /\ Stored(IF f.kind = "return"
                     THEN Return([total |-> f.value, next |-> NULL, operation |-> NULL])
                     ELSE f))

\* 1.5 x 5 = was typed from the empty state and total is "7.5".
C2_Witness ==
    /\ typed = [phase |-> "done", a |-> <<"1", ".", "5">>, op |-> TIMES, b |-> <<"5">>]
    /\ state = [total |-> <<"7", ".", "5">>, next |-> NULL, operation |-> NULL]

\* The state has total present, operation '÷' and a next of value zero.
DividesByZero(s) ==
    /\ Present(s.total)
    /\ s.operation = DIVIDE
    /\ Present(s.next)
    /\ parseFloat(s.next) = Zero

\* C3: with total present, operation '÷' and a next of value zero, '='
\* signals DIVISION_BY_ZERO (not OVERFLOW) and the caller's state becomes
\* total = the error's message, next and operation absent.
C3_DivideByZero ==
    /\ DividesByZero(state) =>
           calculate(state, EQUALS) = CalculatorError(ErrorText, "DIVISION_BY_ZERO")
    /\ (lastButton = EQUALS /\ DividesByZero(prev)) =>
           /\ thrown = "DIVISION_BY_ZERO"
           /\ state = [total |-> ErrorText, next |-> NULL, operation |-> NULL]

\* '=' was pressed on 2 ÷ 0.
C3_Witness ==
    /\ lastButton = EQUALS
    /\ prev = [total |-> <<"2">>, next |-> <<"0">>, operation |-> DIVIDE]
    /\ thrown = "DIVISION_BY_ZERO"

\* What an operator press p must answer when '=' answers e.
Chained(e, p) ==
    IF e.kind = "return" THEN Return([e.value EXCEPT !.operation = p]) ELSE e

\* C4: with total, operation and next present, an operator press p answers
\* as '=' does, with p as the new operation: the same formatted total and
\* next absent when '=' succeeds, the same error when '=' fails.
C4_ChainedOperator ==
    /\ (Present(state.total) /\ Present(state.operation) /\ Present(state.next)) =>
           \A p \in Operators :
               calculate(state, p) = Chained(calculate(state, EQUALS), p)
    /\ (/\ lastButton \in Operators
        /\ Present(prev.total) /\ Present(prev.operation) /\ Present(prev.next)) =>
           Stored(Chained(calculate(prev, EQUALS), lastButton))

\* '×' was pressed on 7 − 9 and left total "-2" with '×' pending.
C4_Witness ==
    /\ lastButton = TIMES
    /\ prev = [total |-> <<"7">>, next |-> <<"9">>, operation |-> MINUS]
    /\ state = [total |-> <<"-", "2">>, next |-> NULL, operation |-> TIMES]

\* Pressing `button` in state s computes a number that is too large.
Overflows(s, button) ==
    Bind(Computation(s, button), LAMBDA c : c.kind = "return" /\ TooLarge(c.value))

\* C5: a computation ('=', a chained operator, '±', '%') whose result is
\* not finite or has magnitude 1e12 or more signals OVERFLOW.
C5_Overflow ==
    /\ \A button \in Computing :
           Overflows(state, button) =>
               calculate(state, button) = CalculatorError(ErrorText, "OVERFLOW")
    /\ (lastButton \in Computing /\ Overflows(prev, lastButton)) =>
           thrown = "OVERFLOW"

\* '=' was pressed on 999999999999 + 1, whose sum is 1e12.
C5_Witness ==
    /\ lastButton = EQUALS
    /\ prev = [total |-> Repeat("9", 12), next |-> <<"1">>, operation |-> PLUS]
    /\ thrown = "OVERFLOW"

\* C6 (as claimed): total and next are each absent or a string that parses
\* as a finite decimal number.
C6_AlwaysNumeric ==
    /\ Present(state.total) => IsFiniteNumber(state.total)
    /\ Present(state.next) => IsFiniteNumber(state.next)

\* A numeric string within the display limits: magnitude at most
\* MAX_SAFE_VALUE, at most MAX_DECIMAL_PLACES fractional digits, at most
\* MAX_DISPLAY_LENGTH characters.
WithinLimits(s) ==
    /\ NumCmp(Abs(parseFloat(s)), MAX_SAFE_VALUE) <= 0
    /\ FractionLength(s) <= MAX_DECIMAL_PLACES
    /\ Len(s) <= MAX_DISPLAY_LENGTH

\* C7 (as claimed): the numeric values in total and next stay within the
\* display limits.
C7_WithinLimits ==
    /\ (Present(state.total) /\ IsFiniteNumber(state.total)) => WithinLimits(state.total)
    /\ (Present(state.next) /\ IsFiniteNumber(state.next)) => WithinLimits(state.next)

\* One of total, operation, next is absent.
Incomplete(s) == ~Present(s.total) \/ ~Present(s.operation) \/ ~Present(s.next)

\* C8: '=' with total, operation or next absent leaves the three fields
\* unchanged and signals no error.
C8_EqualsNoOp ==
    /\ Incomplete(state) => calculate(state, EQUALS) = Return(state)
    /\ (lastButton = EQUALS /\ Incomplete(prev)) => state = prev /\ thrown = "none"

\* '=' was pressed with an operator pending and no next, and changed nothing.
C8_Witness ==
    /\ lastButton = EQUALS
    /\ prev = [total |-> <<"2">>, next |-> NULL, operation |-> DIVIDE]
    /\ state = prev
    /\ thrown = "none"

\* C9: equals is idempotent.  Where '=' succeeds, a second '=' right after
\* it answers with the state the first one left.
C9_EqualsIdempotent ==
    /\ Bind(calculate(state, EQUALS), LAMBDA e :
           e.kind = "return" => calculate(e.value, EQUALS) = e)
    /\ (lastButton = EQUALS /\ thrown = "none") => calculate(state, EQUALS) = Return(state)

\* '=' was pressed a second time on the result of 7 − 9.
C9_Witness ==
    /\ lastButton = EQUALS
    /\ thrown = "none"
    /\ prev = [total |-> <<"-", "2">>, next |-> NULL, operation |-> NULL]
    /\ state = prev

\* C10: the decimal guard.  next never holds more than one decimal point,
\* and '.' pressed when next holds one leaves the state unchanged.
C10_DecimalGuard ==
    /\ Present(state.next) => Points(state.next) <= 1
    /\ (Present(state.next) /\ Includes(state.next, ".")) =>
           calculate(state, POINT) = Return(state)
    /\ (lastButton = POINT /\ Present(prev.next) /\ Includes(prev.next, ".")) =>
           state = prev /\ thrown = "none"

\* '.' was pressed on the entry .3333333 and changed nothing.
C10_Witness ==
    /\ lastButton = POINT
    /\ Present(prev.next)
    /\ Points(prev.next) = 1
    /\ Len(prev.next) > 2
    /\ state = prev

\* s has a redundant leading zero: after an optional sign, "0" followed by
\* a digit.
LeadingZero(s) ==
    LET body == IF s # <<>> /\ s[1] = "-" THEN Tail(s) ELSE s
    IN  Len(body) >= 2 /\ body[1] = "0" /\ IsDigitChar(body[2])

\* C11: leading-zero replacement.  A digit d pressed on next = "0" makes
\* next = d, with or without a pending operator (total is discarded when no
\* operator is pending), and no reachable next has a redundant leading zero.
C11_LeadingZero ==
    /\ state.next = <<"0">> =>
           \A d \in Digits :
               calculate(state, d) =
                   Return([state EXCEPT !.next = d,
                                        !.total = IF Present(state.operation)
                                                  THEN @ ELSE NULL])
    /\ (lastButton \in Digits /\ prev.next = <<"0">>) =>
           state.next = lastButton /\ thrown = "none"
    /\ Present(state.next) => ~LeadingZero(state.next)

\* "5" was pressed on the entry "0" of 2 / 0 and left the entry "5".
C11_Witness ==
    /\ lastButton = D(5)
    /\ prev = [total |-> <<"2">>, next |-> <<"0">>, operation |-> DIVIDE]
    /\ state = [total |-> <<"2">>, next |-> <<"5">>, operation |-> DIVIDE]

\* What an operator press p answers in state s when no operator is pending.
FirstOperator(s, p) ==
    [total |-> IF Present(s.next) THEN s.next ELSE s.total, next |-> NULL, operation |-> p]

\* C12: an operator p pressed when no operator is pending leaves total =
\* next when next is present, else the old total, next absent and
\* operation = p; the string is taken as it is (no arithmetic) and no error
\* is signalled.
C12_FirstOperator ==
    /\ ~Present(state.operation) =>
           \A p \in Operators : calculate(state, p) = Return(FirstOperator(state, p))
    /\ (lastButton \in Operators /\ ~Present(prev.operation)) =>
           state = FirstOperator(prev, lastButton) /\ thrown = "none"

\* '+' was pressed with total "-2" and the entry "0." both present, no
\* operator pending: the entry became the total, unformatted.
C12_Witness ==
    /\ lastButton = PLUS
    /\ prev = [total |-> <<"-", "2">>, next |-> <<"0", ".">>, operation |-> NULL]
    /\ state = [total |-> <<"0", ".">>, next |-> NULL, operation |-> PLUS]

\* An operator is pending in s and no next has been typed.
AwaitingOperand(s) == Present(s.operation) /\ ~Present(s.next)

\* C13: an operator p pressed when an operator is pending and next is
\* absent only replaces the pending operator: total and next are unchanged,
\* nothing is computed and no error is signalled.
C13_OperatorReplaced ==
    /\ AwaitingOperand(state) =>
           \A p \in Operators : calculate(state, p) = Return([state EXCEPT !.operation = p])
    /\ (lastButton \in Operators /\ AwaitingOperand(prev)) =>
           /\ state = [prev EXCEPT !.operation = lastButton]
           /\ thrown = "none"

\* '+' was pressed on 2 / with no next: total stays "2" and '+' is pending.
C13_Witness ==
    /\ lastButton = PLUS
    /\ prev = [total |-> <<"2">>, next |-> NULL, operation |-> DIVIDE]
    /\ state = [total |-> <<"2">>, next |-> NULL, operation |-> PLUS]

\* The field a unary key ('plusminus', '%') acts on in state s.
Operand(s) == IF Present(s.next) THEN "next" ELSE IF Present(s.total) THEN "total" ELSE "none"

\* What a unary key answers in state s when the formatting guard answers f
\* for the new value of Operand(s): s with that field replaced by the
\* guard's string and the other two fields unchanged, or the guard's error.
Adjusted(s, f) ==
    IF f.kind = "return" THEN Return([s EXCEPT ![Operand(s)] = f.value]) ELSE f

\* C14: sign toggle.  'plusminus' negates next when next is present, else
\* total when total is present, and stores the formatting guard's output
\* for the negated value, the other two fields unchanged (where the guard
\* signals an error, that error is signalled); with both absent the state is
\* returned unchanged.
C14_SignToggle ==
    /\ IF Operand(state) = "none"
       THEN calculate(state, PLUSMINUS) = Return(state)
       ELSE Bind(formatResult(Negate(parseFloat(state[Operand(state)]))), LAMBDA f :
                calculate(state, PLUSMINUS) = Adjusted(state, f))
    /\ lastButton = PLUSMINUS =>
           IF Operand(prev) = "none"
           THEN state = prev /\ thrown = "none"
           ELSE Bind(formatResult(Negate(parseFloat(prev[Operand(prev)]))), LAMBDA f :
                    Stored(Adjusted(prev, f)))

\* 'plusminus' was pressed on 7 - 9: next became "-9", total and operation
\* stayed.
C14_Witness ==
    /\ lastButton = PLUSMINUS
    /\ prev = [total |-> <<"7">>, next |-> <<"9">>, operation |-> MINUS]
    /\ state = [total |-> <<"7">>, next |-> <<"-", "9">>, operation |-> MINUS]

\* C15: percent.  A '%' press divides next by 100 when next is present,
\* else total when total is present, and stores the formatting guard's
\* output for the quotient, the other two fields (a pending operator
\* included) unchanged (where the guard signals an error, that error is
\* signalled); with both absent the state is unchanged and no error is
\* signalled.
C15_Percent ==
    lastButton = PERCENT =>
        IF Operand(prev) = "none"
        THEN state = prev /\ thrown = "none"
        ELSE Bind(formatResult(NumDiv(parseFloat(prev[Operand(prev)]), Hundred)), LAMBDA f :
                 Stored(Adjusted(prev, f)))

\* '%' was pressed on 1.5 x 5: next became "0.05", total and the pending
\* operator stayed.
C15_Witness ==
    /\ lastButton = PERCENT
    /\ prev = [total |-> <<"1", ".", "5">>, next |-> <<"5">>, operation |-> TIMES]
    /\ state = [total |-> <<"1", ".", "5">>, next |-> <<"0", ".", "0", "5">>,
                operation |-> TIMES]

\* C16 (as claimed): after a digit or decimal-point press made with no
\* operator pending, total is absent.
C16_NewEntryDiscardsTotal ==
    (lastButton \in Digits \cup {POINT} /\ ~Present(prev.operation)) =>
        ~Present(state.total)

\* C17: after any press on which calculate signals an error, the error is
\* a CalculatorError, which handleInput catches and shows: the caller's
\* state is total = the error's message with next and operation absent, and
\* handleInput ends normally without raising the generic error flag or
\* starting its timer.
C17_ErrorsSurfaced ==
    thrown # "none" =>
        Bind(calculate(prev, lastButton), LAMBDA r :
            /\ r.kind = "throw"
            /\ r.class = "CalculatorError"
            /\ r.code = thrown
            /\ state = [total |-> r.message, next |-> NULL, operation |-> NULL]
            /\ handleInput([state |-> prev, isError |-> FALSE, timers |-> 0], lastButton) =
                   [state |-> state, isError |-> FALSE, timers |-> 0, thrown |-> thrown])

\* 'plusminus' was pressed on the entry 999999999999: the guard refused the
\* 13 characters of the negation and the display shows the error message.
C17_Witness ==
    /\ lastButton = PLUSMINUS
    /\ prev = [total |-> NULL, next |-> Repeat("9", 12), operation |-> NULL]
    /\ thrown = "OVERFLOW"
    /\ state = [total |-> ErrorText, next |-> NULL, operation |-> NULL]
    /\ ~isError

\* C18: at most one operator is pending.  operation is absent or one of
\* '+', minus, times, divide, and an operator press made with an operator
\* pending either resolves the pending computation first (as '=' does, then
\* the new operator) or only replaces the pending operator.
C18_OnePendingOperator ==
    /\ state.operation \in Operators \cup {NULL}
    /\ (lastButton \in Operators /\ Present(prev.operation)) =>
           IF Present(prev.total) /\ Present(prev.next)
           THEN Stored(Chained(calculate(prev, EQUALS), lastButton))
           ELSE state = [prev EXCEPT !.operation = lastButton] /\ thrown = "none"

\* The divide key was pressed on '+' pending with the entry "5" and no
\* total: only the operator changed.
C18_Witness ==
    /\ lastButton = DIVIDE
    /\ prev = [total |-> NULL, next |-> <<"5">>, operation |-> PLUS]
    /\ state = [total |-> NULL, next |-> <<"5">>, operation |-> DIVIDE]

\* C19: the primary display value is next when next is present, else total
\* when total is present, else "0", so it is never empty; the expression
\* line is shown exactly when total and operation are both present.
C19_Display ==
    /\ displayValue = IF Present(state.next) THEN state.next
                      ELSE IF Present(state.total) THEN state.total
                      ELSE <<"0">>
    /\ displayValue # <<>>
    /\ ExpressionShown <=> (Present(state.total) /\ Present(state.operation))

\* 7 - 9 is entered: the display shows "9" under the expression "7 - 9".
C19_Witness ==
    /\ state = [total |-> <<"7">>, next |-> <<"9">>, operation |-> MINUS]
    /\ displayValue = <<"9">>
    /\ expression = <<"7", " ", "minus", " ", "9">>
    /\ ExpressionShown

\* Pressing `button` in state s computes a finite number beyond the display
\* range.
BeyondDisplay(s, button) ==
    Bind(Computation(s, button), LAMBDA c :
        /\ c.kind = "return"
        /\ isFinite(c.value)
        /\ NumCmp(Abs(c.value), MAX_SAFE_VALUE) > 0)

\* C20 (as claimed): a result of '=' or of a chained operator that exceeds
\* the display limits is stored in total as a scientific-notation string,
\* and no error is signalled.
C20_ScientificNotation ==
    (lastButton \in Operators \cup {EQUALS} /\ Full(prev) /\ BeyondDisplay(prev, lastButton)) =>
        /\ thrown = "none"
        /\ Present(state.total)
        /\ Includes(state.total, "e")

\* A key was pressed in this step (handleInput ran).
Pressed == presses' # presses \/ script' # script

\* C21 (as claimed): a press on which calculate throws a CalculatorError
\* sets the error flag the Display receives (isError) and starts the
\* 2-second timer that clears it.
C21_ErrorFlow ==
    [][(Pressed /\ thrown' # "none") => (isError' /\ timers' = timers + 1)]_vars

\* C22 (as claimed): after a press on which calculate signals an error, the
\* caller's state is the state held before the press.
C22_ContextPreserved == thrown # "none" => state = prev

\* C24 (as claimed): a pending operator has its left operand: whenever
\* operation is present, total is present.
C24_OperatorHasOperand == Present(state.operation) => Present(state.total)

\* What the last press computed: Return(number), the error thrown while
\* computing it, or Idle when the press computed nothing.
Computed == IF lastButton \in Computing THEN Computation(prev, lastButton) ELSE Idle

\* The field the last press wrote its result to, when it computed one:
\* the operand of a unary key, total for '=' and a resolving operator.
Written == IF lastButton \in {PLUSMINUS, PERCENT} THEN Operand(prev) ELSE "total"

\* C25: every value written into total or next by '=', a resolving
\* operator, 'plusminus' or '%' is the formatting guard's output for the
\* computed number: a numeric string of at most 12 characters, at most 8
\* fractional digits, no exponent and magnitude at most 999,999,999,999.
C25_GuardOutput ==
    Bind(Computed, LAMBDA c :
        (c.kind = "return" /\ thrown = "none") =>
            /\ Return(state[Written]) = formatResult(c.value)
            /\ IsFiniteNumber(state[Written])
            /\ WithinLimits(state[Written])
            /\ ~Includes(state[Written], "e"))

\* '+' was pressed on 1.5 x 5 and wrote the product "7.5" into total.
C25_Witness ==
    /\ lastButton = PLUS
    /\ prev = [total |-> <<"1", ".", "5">>, next |-> <<"5">>, operation |-> TIMES]
    /\ Computed.kind = "return"
    /\ state.total = <<"7", ".", "5">>

\* 1e-6 and 1e-8
OneEMinus6 == [nan |-> FALSE, neg |-> FALSE, m |-> <<1>>, e |-> 6]

OneEMinus8 == [nan |-> FALSE, neg |-> FALSE, m |-> <<1>>, e |-> 8]

\* The number v is finite with magnitude at most 999,999,999,999.
WithinRange(v) == isFinite(v) /\ NumCmp(Abs(v), MAX_SAFE_VALUE) <= 0

\* The magnitude of v is below 1e-6, where numbers are written in exponent
\* notation, and not below 1e-8.
NeedsExponent(v) ==
    NumCmp(Abs(v), OneEMinus8) >= 0 /\ NumCmp(Abs(v), OneEMinus6) < 0

\* The decimal representation of v, rounded to 8 fractional digits when v
\* has more (v.e is the number of fractional digits of v).
Representation(v) ==
    IF v.e > 8 THEN NumToString(parseFloat(toFixed(v, 8))) ELSE NumToString(v)

\* The rounded representation of v is plain and longer than 12 characters.
TooLong(v) == NumCmp(Abs(v), OneEMinus6) >= 0 /\ Len(Representation(v)) > 12

\* C26: a computed result within +-999,999,999,999 whose rounded decimal
\* representation is longer than 12 characters (sign and point counted), or
\* that would be written in exponent notation, signals OVERFLOW and is not
\* stored.
C26_Unrepresentable ==
    Bind(Computed, LAMBDA c :
        (/\ c.kind = "return"
         /\ WithinRange(c.value)
         /\ NeedsExponent(c.value) \/ TooLong(c.value)) =>
            /\ thrown = "OVERFLOW"
            /\ state = [total |-> ErrorText, next |-> NULL, operation |-> NULL])

\* 'plusminus' was pressed on the entry 0.0000001: -1e-7 would be written
\* "-1e-7" and OVERFLOW was signalled.
C26_Witness ==
    /\ lastButton = PLUSMINUS
    /\ prev = [total |-> NULL, next |-> <<"0", ".", "0", "0", "0", "0", "0", "0", "1">>,
               operation |-> NULL]
    /\ thrown = "OVERFLOW"

\* The number v is not zero and its magnitude is below 1e-8.
Tiny(v) == isFinite(v) /\ v # Zero /\ NumCmp(Abs(v), OneEMinus8) < 0

\* C27: a computed value that is not zero and has magnitude below 1e-8 is
\* stored as exactly "0", and no error is signalled.
C27_Underflow ==
    Bind(Computed, LAMBDA c :
        (c.kind = "return" /\ Tiny(c.value)) =>
            /\ thrown = "none"
            /\ state[Written] = <<"0">>)

\* '%' was pressed on the entry 0.0000001: 1e-9 was stored as "0".
C27_Witness ==
    /\ lastButton = PERCENT
    /\ prev = [total |-> NULL, next |-> <<"0", ".", "0", "0", "0", "0", "0", "0", "1">>,
               operation |-> NULL]
    /\ state = [total |-> NULL, next |-> <<"0">>, operation |-> NULL]
    /\ thrown = "none"

\* 5e-9, half a unit of the 8th fractional digit.
HalfUnit == [nan |-> FALSE, neg |-> FALSE, m |-> <<5>>, e |-> 9]

\* The number v, within range and written in plain notation, has more than
\* 8 fractional digits.
LongFraction(v) == WithinRange(v) /\ NumCmp(Abs(v), OneEMinus6) >= 0 /\ v.e > 8

\* C28: a computed value whose fractional part has more than 8 digits is
\* rounded to 8 fractional digits before it is stored (the stored number is
\* within 5e-9 of the value), and the 12-character test is made on the
\* rounded representation: the value is stored when that has at most 12
\* characters, whatever the length of the unrounded one, and refused with
\* OVERFLOW otherwise.
C28_Rounding ==
    Bind(Computed, LAMBDA c :
        (c.kind = "return" /\ LongFraction(c.value)) =>
            IF Len(Representation(c.value)) <= 12
            THEN /\ thrown = "none"
                 /\ state[Written] = Representation(c.value)
                 /\ FractionLength(state[Written]) <= 8
                 /\ NumCmp(Abs(NumSub(parseFloat(state[Written]), c.value)), HalfUnit) <= 0
            ELSE thrown = "OVERFLOW")

\* '=' was pressed on 200 / 15: the quotient 13.33... has more than 12
\* characters unrounded and was stored as "13.33333333".
C28_Witness ==
    /\ lastButton = EQUALS
    /\ prev = [total |-> <<"2", "0", "0">>, next |-> <<"1", "5">>, operation |-> DIVIDE]
    /\ Len(NumToString(Computed.value)) > 12
    /\ state.total = <<"1", "3", ".", "3", "3", "3", "3", "3", "3", "3", "3">>

\* C29: a computed value equal to zero is stored as "0", never as "-0" or
\* with a decimal point, also when 'plusminus' is applied to a zero entry;
\* no error is signalled.
C29_ZeroIsZero ==
    Bind(Computed, LAMBDA c :
        (c.kind = "return" /\ c.value = Zero) =>
            /\ thrown = "none"
            /\ state[Written] = <<"0">>)

\* 'plusminus' was pressed on the entry "0." of 2 / 0. and stored "0".
C29_Witness ==
    /\ lastButton = PLUSMINUS
    /\ prev = [total |-> <<"2">>, next |-> <<"0", ".">>, operation |-> DIVIDE]
    /\ state = [total |-> <<"2">>, next |-> <<"0">>, operation |-> DIVIDE]

\* C30: '.' pressed when next is absent sets next to "0." and leaves total
\* and operation unchanged, with or without a pending operator; no error
\* is signalled.
C30_PointStartsEntry ==
    /\ ~Present(state.next) =>
           calculate(state, POINT) = Return([state EXCEPT !.next = <<"0", ".">>])
    /\ (lastButton = POINT /\ ~Present(prev.next)) =>
           /\ state = [prev EXCEPT !.next = <<"0", ".">>]
           /\ thrown = "none"

\* '.' was pressed on 2 / with no entry: next became "0.", total and the
\* pending operator stayed.
C30_Witness ==
    /\ lastButton = POINT
    /\ prev = [total |-> <<"2">>, next |-> NULL, operation |-> DIVIDE]
    /\ state = [total |-> <<"2">>, next |-> <<"0", ".">>, operation |-> DIVIDE]

\* C31: while an operator is pending, a press of a digit or of the decimal
\* point signals nothing and changes only next (total and operation are
\* what they were before the press); when next was absent, a digit press
\* sets next to exactly that digit.
C31_EntryWhilePending ==
    (lastButton \in Digits \cup {POINT} /\ Present(prev.operation)) =>
        /\ thrown = "none"
        /\ state.total = prev.total
        /\ state.operation = prev.operation
        /\ (~Present(prev.next) /\ lastButton \in Digits) => state.next = lastButton

\* '5' pressed on 2 divide: the entry "5" starts beside total "2".
C31_Witness ==
    /\ lastButton = D(5)
    /\ prev = [total |-> <<"2">>, next |-> NULL, operation |-> DIVIDE]
    /\ state = [total |-> <<"2">>, next |-> <<"5">>, operation |-> DIVIDE]

\* C32: a press of a label outside the 19 allowed labels is rejected before
\* calculate: it leaves total, next and operation as they were, nothing is
\* thrown, the isError flag is set and a 2-second timer is started; an
\* isError flag that is set is eventually reset to false, and nothing but
\* a timer that fires resets it.
C32_InvalidLabel ==
    /\ [][(Pressed /\ lastButton' \notin allowedInputs) =>
              /\ state' = state
              /\ thrown' = "none"
              /\ isError'
              /\ timers' = timers + 1]_vars
    /\ [][(isError /\ ~isError') => timers' = timers - 1]_vars
    /\ isError ~> ~isError

\* The label "x" was pressed while 2 divide was pending; the state is
\* what it was and the timer has fired: isError is false again.
C32_Witness ==
    /\ lastButton = BadLabel
    /\ state = [total |-> <<"2">>, next |-> NULL, operation |-> DIVIDE]
    /\ state = prev
    /\ ~isError
    /\ timers = 0

\* C33: presses are serialized: the state after a press of an allowed
\* label is what calculate answers for the state the previous press
\* produced (prev) and that label, also when the component has not
\* rendered between the two presses.
C33_Serialized ==
    lastButton \in allowedInputs => Stored(calculate(prev, lastButton))

\* The press of `button` in state s computes with total as an operand.
UsesTotal(s, button) ==
    \/ button \in {PLUSMINUS, PERCENT} /\ Operand(s) = "total"
    \/ button \in Operators \cup {EQUALS} /\ Full(s)

\* The press of `button` in state s clears the calculator or starts a new
\* entry (a digit or the decimal point with no operator pending).
StartsOver(s, button) ==
    button = AC \/ (button \in Digits \cup {POINT} /\ ~Present(s.operation))

\* C34: once total holds the error text, no press turns it into a number:
\* a press that computes with total signals an error again and leaves the
\* error text in total, and total differs from the error text after a press
\* only when that press is AC or starts a new entry.
C34_ErrorTextStays ==
    prev.total = ErrorText =>
        /\ UsesTotal(prev, lastButton) => (thrown # "none" /\ state = ErrorDisplay(ErrorText))
        /\ state.total # ErrorText => StartsOver(prev, lastButton)

\* C35: whatever legal labels are pressed from the empty state, calculate
\* signals nothing but DIVISION_BY_ZERO or OVERFLOW, never the
\* CALCULATION_ERROR fallback: the pending operator is always one of the
\* four keys of the operations table.
C35_NoFallback ==
    /\ thrown \in {"none", "DIVISION_BY_ZERO", "OVERFLOW"}
    /\ state.operation \in Operators \cup {NULL}

\* '0' and then '+' pressed on 2 divide: the chained division by zero is
\* signalled as DIVISION_BY_ZERO.
C35_Witness ==
    /\ lastButton = PLUS
    /\ prev = [total |-> <<"2">>, next |-> <<"0">>, operation |-> DIVIDE]
    /\ thrown = "DIVISION_BY_ZERO"

\* This step is the second of two presses of 'plusminus' in a row, and
\* neither press signals an error (prev is the state before the first).
SecondToggle ==
    /\ lastButton = PLUSMINUS
    /\ thrown = "none"
    /\ Pressed
    /\ lastButton' = PLUSMINUS
    /\ thrown' = "none"

\* After this step the field toggled from prev holds a text of the same
\* numeric value as in prev, and the other two fields are those of prev.
Restored ==
    IF Operand(prev) = "none" THEN state' = prev
    ELSE /\ parseFloat(state'[Operand(prev)]) = parseFloat(prev[Operand(prev)])
         /\ \A g \in {"total", "next", "operation"} \ {Operand(prev)} : state'[g] = prev[g]

\* The field toggled in state s has at most MAX_DECIMAL_PLACES digits after
\* its decimal point.
WithinPrecision(s) ==
    Operand(s) # "none" => FractionLength(s[Operand(s)]) <= MAX_DECIMAL_PLACES

HasDigitOrPoint(label) ==
    \E i \in 1..Len(label) :
        label[i] \in {"0", "1", "2", "3", "4", "5", "6", "7", "8", "9", "."}

\* C37 as stated: calculate, called directly with a label that is not one
\* of the 19 legal labels, returns the state unchanged in all three fields
\* and signals no error.
C37_IllegalLabelIgnored ==
    lastButton \in IllegalLabels => (state = prev /\ thrown = "none")

\* C37, amended: calculate, called directly with a label that is not one
\* of the 19 legal labels and has no digit and no decimal point among its
\* characters, returns the state unchanged in all three fields and signals
\* no error.
C37_PlainIllegalLabelIgnored ==
    (lastButton \in IllegalLabels /\ ~HasDigitOrPoint(lastButton)) =>
        (state = prev /\ thrown = "none")

\* calculate was called with "x" while 2 divide was pending and returned
\* that state.
C37_Witness ==
    /\ lastButton = BadLabel
    /\ presses > 0
    /\ prev = [total |-> <<"2">>, next |-> NULL, operation |-> DIVIDE]
    /\ state = prev
    /\ thrown = "none"
    /\ ~isError

=============================================================================
